---------------------------- MODULE Spec2Model ----------------------------
(***************************************************************************)
(* Model of the cientme backend: the guessing-game commit/reveal lifecycle *)
(* (src/games) and the reel reach / share-point engine (src/reels,         *)
(* src/core/utils).  Time is counted in hours.  Strings are sequences of   *)
(* one-character strings; the empty sequence stands for None / "".         *)
(***************************************************************************)
EXTENDS Integers, Sequences, FiniteSets, TLC

\* ------------------------------------------------------------------------
\* Bounds of the model
\* ------------------------------------------------------------------------
MaxTicks == 2
TickHours == 24
MaxWinners == 3
MaxSubs == 2
MaxWinningNumbers == 1
MaxReels == 2
MaxViews == 1
MaxHours == 1
MaxShares == 2
MaxWeeks == 5
MaxGuess == 4
LargeUserCount == 150000
MaxSlice == 2
MaxLimit == 2

Users == {"u1", "u2"}
Creators == {"c1"}
GameIds == {1}
Guesses == 1..3
GuessRanges == {<<1, 2>>}
Triggers == {"sweep", "admin", "repeat"}

\* ------------------------------------------------------------------------
\* Program constants
\* ------------------------------------------------------------------------
DefaultDurationHours == 24
ClaimDays == 14
DeliveryDays == 7
HoursPerDay == 24

MAX_HOURLY_SHARES == 3
MAX_DAILY_SHARES == 10
MIN_SHARE_BONUS == 50

Null == <<>>
NoTime == -1
NoUser == "nobody"
NoPos == 0

\* ------------------------------------------------------------------------
\* Strings: str(), join, split, int()
\* ------------------------------------------------------------------------
Digits == <<"0", "1", "2", "3", "4", "5", "6", "7", "8", "9">>

IsDigit(c) == \E i \in 1..10 : Digits[i] = c

DigitVal(c) == (CHOOSE i \in 1..10 : Digits[i] = c) - 1

RECURSIVE Str(_)
Str(n) == IF n < 10 THEN <<Digits[n + 1]>>
          ELSE Str(n \div 10) \o <<Digits[(n % 10) + 1]>>

RECURSIVE Join(_, _)
Join(sep, strs) ==
    IF strs = <<>> THEN <<>>
    ELSE IF Len(strs) = 1 THEN strs[1]
    ELSE strs[1] \o sep \o Join(sep, Tail(strs))

StrList(nums) == [i \in 1..Len(nums) |-> Str(nums[i])]

RECURSIVE SplitFrom(_, _, _)
SplitFrom(s, sep, cur) ==
    IF s = <<>> THEN <<cur>>
    ELSE IF Head(s) = sep THEN <<cur>> \o SplitFrom(Tail(s), sep, <<>>)
    ELSE SplitFrom(Tail(s), sep, Append(cur, Head(s)))

Split(s, sep) == SplitFrom(s, sep, <<>>)

RECURSIVE DigitsVal(_, _)
DigitsVal(s, acc) ==
    IF s = <<>> THEN acc ELSE DigitsVal(Tail(s), acc * 10 + DigitVal(Head(s)))

AllDigits(s) == s # <<>> /\ \A i \in 1..Len(s) : IsDigit(s[i])

\* int(s): an optional sign followed by decimal digits, ValueError otherwise
ParseInt(s) ==
    IF AllDigits(s) THEN [ok |-> TRUE, val |-> DigitsVal(s, 0)]
    ELSE IF s # <<>> /\ Head(s) = "-" /\ AllDigits(Tail(s))
         THEN [ok |-> TRUE, val |-> 0 - DigitsVal(Tail(s), 0)]
    ELSE IF s # <<>> /\ Head(s) = "+" /\ AllDigits(Tail(s))
         THEN [ok |-> TRUE, val |-> DigitsVal(Tail(s), 0)]
    ELSE [ok |-> FALSE, val |-> 0]

\* ------------------------------------------------------------------------
\* Hashing and encryption
\* ------------------------------------------------------------------------
\* SHA-256 as a collision-free function: the digest names its preimage
Sha256(s) == <<"sha256:">> \o s

\* Fernet under the one project-wide key: a token wraps its plaintext
FernetEncrypt(s) == <<"fernet:">> \o s

FernetDecrypt(tok) ==
    IF tok # <<>> /\ Head(tok) = "fernet:"
    THEN [ok |-> TRUE, val |-> Tail(tok)]
    ELSE [ok |-> FALSE, val |-> <<>>]

UuidSalts == {<<"uuid-a">>}
SaveSalts == {<<"rnd-a">>}

\* hash computed at commit time
CommitHash(winning_numbers, salt) ==
    Sha256(Join(<<"-">>, StrList(winning_numbers)) \o <<"-">> \o salt)

\* variant: values drawn with replacement
Samples_WithReplacement(S, n) == [1..n -> S]

\* random.sample: all sequences of n distinct values of S
RECURSIVE Samples(_, _)
Samples(S, n) ==
    IF n = 0 THEN {<<>>}
    ELSE UNION {{<<x>> \o rest : rest \in Samples(S \ {x}, n - 1)} : x \in S}

\* generate_winning_numbers: the set of possible results, empty on ValueError
generate_winning_numbers(guess_min, guess_max, number_of_winners) ==
    IF number_of_winners > (guess_max - guess_min + 1) THEN {}
    ELSE {[winning_numbers |-> w, salt |-> s, hash_value |-> CommitHash(w, s)] :
            w \in Samples(guess_min..guess_max, number_of_winners), s \in UuidSalts}

encrypt_numbers(winning_numbers) == FernetEncrypt(winning_numbers)

decrypt_numbers(encrypted_numbers) == FernetDecrypt(encrypted_numbers)

\* Game.verify_fairness
verify_fairness(gm, winning_numbers) ==
    Sha256(Join(<<",">>, StrList(winning_numbers)) \o gm.salt) = gm.hash_value

\* the decrypt-and-parse block of close_game_and_select_winners
ParseAll(parts) ==
    IF \A i \in 1..Len(parts) : ParseInt(parts[i]).ok
    THEN [ok |-> TRUE, val |-> [i \in 1..Len(parts) |-> ParseInt(parts[i]).val]]
    ELSE [ok |-> FALSE, val |-> <<>>]

\* variant: a failure is swallowed and the method carries on with no numbers
DecryptWinningNumbers_Swallow(encrypted) ==
    IF encrypted = Null THEN [ok |-> TRUE, val |-> <<>>]
    ELSE LET d == FernetDecrypt(encrypted)
             parsed == IF d.ok THEN ParseAll(Split(d.val, ","))
                       ELSE [ok |-> FALSE, val |-> <<>>]
         IN  IF parsed.ok THEN parsed ELSE [ok |-> TRUE, val |-> <<>>]

DecryptWinningNumbers(encrypted) ==
    IF encrypted = Null THEN [ok |-> TRUE, val |-> <<>>]
    ELSE LET d == FernetDecrypt(encrypted)
         IN  IF ~d.ok THEN [ok |-> FALSE, val |-> <<>>]
             ELSE ParseAll(Split(d.val, ","))


\* ------------------------------------------------------------------------
\* State
\* ------------------------------------------------------------------------
VARIABLES
    now,              \* wall clock, hours
    game,             \* Game rows, by id
    submissions,      \* GameSubmission rows, in insertion (= submitted_at) order
    gameHistories,    \* ids of the games that have a GameHistory row
    winningNumbers,   \* WinningNumber rows
    winnerHistories,  \* WinnerHistory rows, in creation order
    rewardMessages,   \* RewardMessage rows
    closer,           \* the running close triggers, each with its loaded Game instance
    event,            \* what the step just taken returned to its caller
    totalUsers,       \* User.objects.count()
    reels,            \* Reel rows, by id
    profiles,         \* Profile rows, by user
    shares,           \* Share rows
    requests          \* the share requests being served, each with its loaded Reel

gameVars == <<game, submissions, gameHistories, winningNumbers,
              winnerHistories, rewardMessages, closer, event>>

reelVars == <<totalUsers, reels, profiles, shares, requests>>

vars == <<now, gameVars, reelVars>>

AbsentGame ==
    [stage |-> "absent", creator |-> NoUser, is_active |-> FALSE,
     auto_close |-> FALSE, winners_selected |-> FALSE, end_time |-> NoTime,
     salt |-> Null, hash_value |-> Null, winning_numbers_encrypted |-> Null,
     number_of_winners |-> 0, guess_min |-> 0, guess_max |-> 0,
     drawn |-> <<>>]

IdleCloser ==
    [pc |-> "idle", g |-> 0, copy |-> AbsentGame, nums |-> <<>>, early |-> FALSE]

\* op "close": a close call ended with outcome; early: it decrypted the
\* winning values before end_time.  op "game": a Game was serialized.
\* op "submit" / "update" / "mark_winners": a submission request ended with
\* outcome; i: the row an update wrote.  op "claim" / "deliver": claim_reward /
\* mark_delivered was called on WinnerHistory i.  mail_failed: an e-mail the
\* step tried to send could not be sent.
NoEvent == [op |-> "none", p |-> "none", g |-> 0, outcome |-> "none",
            early |-> FALSE, before_end |-> FALSE, salt |-> Null,
            winning_numbers |-> <<>>, i |-> 0, mail_failed |-> FALSE]

\* the share requests served at once
Requests == {"r1", "r2"}

NoReel == [user |-> NoUser, likes |-> 0, comments |-> 0, replies |-> 0,
           saves |-> 0, shares |-> 0, views |-> 0, reach |-> 0]

\* outcome: what the request last served in this slot returned
IdleRequest ==
    [pc |-> "idle", reel |-> 0, user |-> NoUser, points |-> 0, loaded |-> NoReel,
     row |-> 0, created |-> FALSE, total |-> 0, outcome |-> "none"]

GameInit ==
    /\ now = 0
    /\ game = [g \in GameIds |-> AbsentGame]
    /\ submissions = <<>>
    /\ gameHistories = {}
    /\ winningNumbers = {}
    /\ winnerHistories = <<>>
    /\ rewardMessages = {}
    /\ closer = [p \in Triggers |-> IdleCloser]
    /\ event = NoEvent
    \* no reel activity in the game specification
    /\ totalUsers = 0
    /\ reels = <<>>
    /\ profiles = [u \in Users |-> [total_share_points |-> 0, badge_type |-> "",
                                     total_reach |-> 0]]
    /\ shares = {}
    /\ requests = [p \in Requests |-> IdleRequest]

\* ------------------------------------------------------------------------
\* Clock
\* ------------------------------------------------------------------------
Tick ==
    /\ now < MaxTicks * TickHours
    /\ now' = now + TickHours
    /\ event' = NoEvent
    /\ UNCHANGED <<game, submissions, gameHistories, winningNumbers,
                   winnerHistories, rewardMessages, closer>>
    /\ UNCHANGED reelVars

\* ------------------------------------------------------------------------
\* GameViewSet.perform_create: insert the row, then draw and commit
\* ------------------------------------------------------------------------
\* GameSerializer.validate
GameSerializerValidate(guess_min, guess_max, number_of_winners) ==
    /\ guess_min > 0
    /\ guess_max > guess_min
    /\ number_of_winners >= 1

\* serializer.save(creator=user): Game.save fills end_time and a random salt
InsertedGame(u, rng, n, ac, s) ==
    [stage |-> "inserted", creator |-> u, is_active |-> TRUE,
     auto_close |-> ac, winners_selected |-> FALSE,
     end_time |-> now + DefaultDurationHours,
     salt |-> s, hash_value |-> Null,
     winning_numbers_encrypted |-> Null,
     number_of_winners |-> n, guess_min |-> rng[1],
     guess_max |-> rng[2], drawn |-> <<>>]

CreateGameInsert(g, u, rng, n, ac) ==
    /\ game[g].stage = "absent"
    /\ GameSerializerValidate(rng[1], rng[2], n)
    /\ \E s \in SaveSalts :
         game' = [game EXCEPT ![g] = InsertedGame(u, rng, n, ac, s)]
    /\ event' = NoEvent
    /\ UNCHANGED <<now, submissions, gameHistories, winningNumbers,
                   winnerHistories, rewardMessages, closer>>
    /\ UNCHANGED reelVars

\* generate_winning_numbers succeeded: encrypt and save the four fields
CreateGameCommit(g) ==
    /\ game[g].stage = "inserted"
    /\ \E r \in generate_winning_numbers(game[g].guess_min, game[g].guess_max,
                                         game[g].number_of_winners) :
         game' = [game EXCEPT ![g].stage = "committed",
                              ![g].salt = r.salt,
                              ![g].hash_value = r.hash_value,
                              ![g].winning_numbers_encrypted =
                                  encrypt_numbers(Join(<<"-">>, StrList(r.winning_numbers))),
                              ![g].drawn = r.winning_numbers]
    /\ event' = NoEvent
    /\ UNCHANGED <<now, submissions, gameHistories, winningNumbers,
                   winnerHistories, rewardMessages, closer>>
    /\ UNCHANGED reelVars

\* generate_winning_numbers raised ValueError: the request fails, the row stays
CreateGameFail(g) ==
    /\ game[g].stage = "inserted"
    /\ generate_winning_numbers(game[g].guess_min, game[g].guess_max,
                                game[g].number_of_winners) = {}
    /\ game' = [game EXCEPT ![g].stage = "failed"]
    /\ event' = NoEvent
    /\ UNCHANGED <<now, submissions, gameHistories, winningNumbers,
                   winnerHistories, rewardMessages, closer>>
    /\ UNCHANGED reelVars

\* ------------------------------------------------------------------------
\* Rows added through the admin site
\* ------------------------------------------------------------------------
\* variant: no uniqueness constraint on (game, user)
UniqueTogetherHolds_None(subs, g, u, i) == TRUE

\* GameSubmission.Meta.unique_together: no row other than row i has (game, user)
UniqueTogetherHolds(subs, g, u, i) ==
    ~\E j \in 1..Len(subs) : j # i /\ subs[j].game = g /\ subs[j].user = u

\* the range test of GameSubmission.save: TRUE when it raises ValueError
SaveRaisesValueError(gm, guessed_number) ==
    guessed_number < gm.guess_min \/ guessed_number > gm.guess_max

\* GameSubmissionAdmin add form -> GameSubmission.save
GameSubmissionSave(g, u, guess) ==
    /\ game[g].stage # "absent"
    /\ Len(submissions) < MaxSubs
    /\ UniqueTogetherHolds(submissions, g, u, 0)
    /\ ~SaveRaisesValueError(game[g], guess)
    /\ submissions' = Append(submissions,
          [game |-> g, user |-> u, guessed_number |-> guess,
           submitted_at |-> now, is_winner |-> FALSE, prize_position |-> NoPos])
    /\ event' = NoEvent
    /\ UNCHANGED <<now, game, gameHistories, winningNumbers,
                   winnerHistories, rewardMessages, closer>>
    /\ UNCHANGED reelVars

\* WinningNumberAdmin add form
WinningNumberAdminAdd(g, number) ==
    /\ game[g].stage # "absent"
    /\ Cardinality(winningNumbers) < MaxWinningNumbers
    /\ number \in game[g].guess_min..game[g].guess_max
    /\ ~\E wn \in winningNumbers : wn.game = g /\ wn.number = number
    /\ winningNumbers' = winningNumbers \cup
          {[game |-> g, number |-> number, prize_position |-> 1, winner |-> NoUser]}
    /\ event' = NoEvent
    /\ UNCHANGED <<now, game, submissions, gameHistories,
                   winnerHistories, rewardMessages, closer>>
    /\ UNCHANGED reelVars

\* ------------------------------------------------------------------------
\* Game.close_game_and_select_winners and its callers
\* ------------------------------------------------------------------------
Min(a, b) == IF a < b THEN a ELSE b

\* the queryset each caller iterates (the row is loaded when it is evaluated)
TriggerSelects(p, gm) ==
    CASE p = "sweep"  -> gm.is_active /\ gm.end_time <= now /\ gm.auto_close
      [] p = "admin"  -> gm.is_active
      [] p = "repeat" -> ~gm.is_active

\* variant: the guard forgets the is_active test
CloseGuardReturns_NoActiveTest(c) == ~c.auto_close

\* the early return at the top of the method
CloseGuardReturns(c) == ~c.auto_close \/ ~c.is_active

\* self.submissions.filter(submitted_at__lte=self.end_time).order_by("submitted_at")
EligibleSubs(g, end_time) ==
    SelectSeq(submissions, LAMBDA s : s.game = g /\ s.submitted_at <= end_time)

\* the shortfall block: extend the numbers with the guesses of the earliest
\* submissions whose guess is not among them
Backfill(nums, n, subs) ==
    IF Len(nums) < n
    THEN LET unmatched == SelectSeq(subs,
                 LAMBDA s : ~\E i \in 1..Len(nums) : nums[i] = s.guessed_number)
             k == Min(n - Len(nums), Len(unmatched))
         IN  nums \o [i \in 1..k |-> unmatched[i].guessed_number]
    ELSE nums

\* submissions.filter(guessed_number=number).first(): index in subs, 0 if none
FirstWith(subs, number) ==
    IF \E i \in 1..Len(subs) : subs[i].guessed_number = number
    THEN CHOOSE i \in 1..Len(subs) :
            /\ subs[i].guessed_number = number
            /\ \A j \in 1..(i - 1) : subs[j].guessed_number # number
    ELSE 0

\* WinningNumber.objects.get_or_create(game, number, defaults={..., "is_claimed": False}):
\* an existing row is returned; creating one fails, the model has no is_claimed
WinningNumberGetOrCreateRaises(g, number) ==
    ~\E wn \in winningNumbers : wn.game = g /\ wn.number = number

\* variant: the delivery deadline counted from the close
NewWinnerHistory_DeliveryFromClose(g, u, number, position) ==
    [game |-> g, user |-> u, number |-> number, prize_position |-> position,
     claim_deadline |-> now + ClaimDays * HoursPerDay,
     reward_delivery_deadline |-> now + DeliveryDays * HoursPerDay,
     is_claimed |-> FALSE, claimed_at |-> NoTime, reward_delivered |-> FALSE]

\* WinnerHistory.objects.create of the winner loop
NewWinnerHistory(g, u, number, position) ==
    [game |-> g, user |-> u, number |-> number, prize_position |-> position,
     claim_deadline |-> now + ClaimDays * HoursPerDay,
     reward_delivery_deadline |-> now + ClaimDays * HoursPerDay + DeliveryDays * HoursPerDay,
     is_claimed |-> FALSE, claimed_at |-> NoTime, reward_delivered |-> FALSE]

\* the winner loop: the WinnerHistory rows it creates, and whether it raised
RECURSIVE SelectLoop(_, _, _, _, _, _)
SelectLoop(nums, position, n, subs, g, acc) ==
    IF nums = <<>> \/ position > n THEN [whs |-> acc, raised |-> FALSE]
    ELSE LET number == Head(nums)
             w == FirstWith(subs, number)
         IN  IF w = 0 THEN SelectLoop(Tail(nums), position, n, subs, g, acc)
             ELSE IF WinningNumberGetOrCreateRaises(g, number)
                  THEN [whs |-> acc, raised |-> TRUE]
             ELSE SelectLoop(Tail(nums), position + 1, n, subs, g,
                             Append(acc, NewWinnerHistory(g, subs[w].user, number, position)))

CloserDone(p) == [closer EXCEPT ![p] = IdleCloser]

Ended(p, g, out, early) ==
    [NoEvent EXCEPT !.op = "close", !.p = p, !.g = g,
                    !.outcome = out, !.early = early]

\* a trigger evaluates its queryset and gets an instance of game g
CloseLoad(p, g) ==
    /\ p # "repeat"
    /\ closer[p].pc = "idle"
    /\ game[g].stage # "absent"
    /\ TriggerSelects(p, game[g])
    /\ closer' = [closer EXCEPT ![p] =
                    [pc |-> "guard", g |-> g, copy |-> game[g], nums |-> <<>>,
                     early |-> FALSE]]
    /\ event' = NoEvent
    /\ UNCHANGED <<now, game, submissions, gameHistories, winningNumbers,
                   winnerHistories, rewardMessages>>
    /\ UNCHANGED reelVars

\* the method up to the decrypt block, run by p on its instance c of game g:
\* guard, is_active = False saved, decrypt and parse
GuardStep(p, g, c) ==
    LET d == DecryptWinningNumbers(c.winning_numbers_encrypted)
        early == c.winning_numbers_encrypted # Null /\ now < c.end_time
    IN
    /\ IF CloseGuardReturns(c)
       THEN /\ closer' = CloserDone(p)
            /\ event' = Ended(p, g, "noop", FALSE)
            /\ UNCHANGED game
       ELSE /\ game' = [game EXCEPT ![g].is_active = FALSE]
            /\ IF d.ok
               THEN /\ closer' = [closer EXCEPT ![p] =
                          [pc |-> "history", g |-> g,
                           copy |-> [c EXCEPT !.is_active = FALSE],
                           nums |-> d.val, early |-> early]]
                    /\ event' = NoEvent
               ELSE /\ closer' = CloserDone(p)
                    /\ event' = Ended(p, g, "aborted", early)
    /\ UNCHANGED <<now, submissions, gameHistories, winningNumbers,
                   winnerHistories, rewardMessages>>
    /\ UNCHANGED reelVars

CloseGuard(p) ==
    /\ closer[p].pc = "guard"
    /\ GuardStep(p, closer[p].g, closer[p].copy)

\* the method invoked once more on a game that is no longer active
CloseAgain(g) ==
    /\ closer["repeat"].pc = "idle"
    /\ game[g].stage # "absent"
    /\ TriggerSelects("repeat", game[g])
    /\ GuardStep("repeat", g, game[g])

\* GameHistory.objects.create: game is a OneToOneField, a second row is an IntegrityError
CloseHistory(p) ==
    LET g == closer[p].g IN
    /\ closer[p].pc = "history"
    /\ IF g \in gameHistories
       THEN /\ closer' = CloserDone(p)
            /\ event' = Ended(p, g, "integrity_error", closer[p].early)
            /\ UNCHANGED gameHistories
       ELSE /\ gameHistories' = gameHistories \cup {g}
            /\ closer' = [closer EXCEPT ![p].pc = "select"]
            /\ event' = NoEvent
    /\ UNCHANGED <<now, game, submissions, winningNumbers,
                   winnerHistories, rewardMessages>>
    /\ UNCHANGED reelVars

\* variant: the exception of a failed send_mail is not caught
SendMailRaises_Uncaught(fails) == fails

\* send_mail sits in try / except Exception at every call site: a failure is
\* printed and the method goes on
SendMailRaises(fails) == FALSE

\* the rows the winner loop and the creator notice leave behind: all of them,
\* or those written before the first e-mail when its failure propagates
WinnersKept(r, fails) ==
    IF SendMailRaises(fails) /\ r.whs # <<>> THEN <<r.whs[1]>> ELSE r.whs

\* backfill, winner loop, e-mails, winners_selected = True; fails: the mail
\* backend is down during the call
CloseSelect(p, fails) ==
    LET c == closer[p].copy
        g == closer[p].g
        subs == EligibleSubs(g, c.end_time)
        nums == Backfill(closer[p].nums, c.number_of_winners, subs)
        r == SelectLoop(nums, 1, c.number_of_winners, subs, g, <<>>)
        base == Len(winnerHistories)
        attempted == r.whs # <<>> \/ ~r.raised
        kept == WinnersKept(r, fails /\ attempted)
        out == IF SendMailRaises(fails /\ attempted) THEN "mail_error"
               ELSE IF r.raised THEN "field_error" ELSE "selected"
    IN
    /\ closer[p].pc = "select"
    /\ winnerHistories' = winnerHistories \o kept
    /\ rewardMessages' = rewardMessages \cup
          {[wh |-> base + i, sender |-> c.creator, kind |-> "open"] :
              i \in 1..Len(kept)}
    /\ closer' = CloserDone(p)
    /\ event' = [Ended(p, g, out, closer[p].early) EXCEPT
                    !.mail_failed = fails /\ attempted]
    /\ game' = IF out = "selected"
               THEN [game EXCEPT ![g].winners_selected = TRUE]
               ELSE game
    /\ UNCHANGED <<now, submissions, gameHistories, winningNumbers>>
    /\ UNCHANGED reelVars

\* ------------------------------------------------------------------------
\* GET /games/<id>/ : GameSerializer
\* ------------------------------------------------------------------------
\* GameSerializer.get_winning_numbers
get_winning_numbers(obj, g) ==
    IF obj.winning_numbers_encrypted # Null /\ obj.end_time # NoTime /\ now >= obj.end_time
    THEN IF ~obj.winners_selected THEN <<>>
         ELSE LET d == decrypt_numbers(obj.winning_numbers_encrypted)
                  parsed == IF d.ok THEN ParseAll(Split(d.val, ","))
                            ELSE [ok |-> FALSE, val |-> <<>>]
              IN  IF ~parsed.ok THEN <<>>
                  \* wn.is_claimed: AttributeError when a row exists, caught
                  ELSE IF \E i \in 1..Len(parsed.val) : \E wn \in winningNumbers :
                             wn.game = g /\ wn.number = parsed.val[i]
                       THEN <<>>
                  ELSE parsed.val
    ELSE <<>>

\* retrieve: the queryset is the active games; salt is a serialized field
SerializeGame(g) ==
    /\ game[g].stage # "absent"
    /\ game[g].is_active
    /\ event' = [NoEvent EXCEPT !.op = "game", !.g = g,
                                !.before_end = now < game[g].end_time,
                                !.salt = game[g].salt,
                                !.winning_numbers = get_winning_numbers(game[g], g)]
    /\ UNCHANGED <<now, game, submissions, gameHistories, winningNumbers,
                   winnerHistories, rewardMessages, closer>>
    /\ UNCHANGED reelVars

GameNext ==
    \/ Tick
    \/ \E g \in GameIds, u \in Creators, rng \in GuessRanges, n \in 1..MaxWinners,
          ac \in BOOLEAN : CreateGameInsert(g, u, rng, n, ac)
    \/ \E g \in GameIds : CreateGameCommit(g)
    \/ \E g \in GameIds : CreateGameFail(g)
    \/ \E g \in GameIds, u \in Users, guess \in Guesses : GameSubmissionSave(g, u, guess)
    \/ \E g \in GameIds, number \in Guesses : WinningNumberAdminAdd(g, number)
    \/ \E p \in Triggers, g \in GameIds : CloseLoad(p, g)
    \/ \E p \in Triggers : CloseGuard(p)
    \/ \E g \in GameIds : CloseAgain(g)
    \/ \E p \in Triggers : CloseHistory(p)
    \/ \E p \in Triggers, fails \in BOOLEAN : CloseSelect(p, fails)
    \/ \E g \in GameIds : SerializeGame(g)

GameSpec == GameInit /\ [][GameNext]_vars

\* ------------------------------------------------------------------------
\* The submission endpoint: GameSubmissionViewSet and GameSubmissionSerializer
\* ------------------------------------------------------------------------
SubmitGameIds == {1, 2}

\* the player whose requests are followed
Submitters == {"u1"}

\* a field the request does not carry
NotSent == 0

\* GameSubmissionSerializer.validate_guessed_number on the game it looked up
validate_guessed_number(gm, value) ==
    IF ~gm.is_active \/ (gm.end_time # NoTime /\ gm.end_time <= now) THEN "closed"
    ELSE IF value < gm.guess_min \/ value > gm.guess_max THEN "out_of_range"
    ELSE "ok"

\* POST by user u: field validation, then GameSubmissionSerializer.create.
\* perform_create passes user to save(), create() passes it again next to
\* validated_data, so the insert is never reached (TypeError).
SubmissionCreateOutcome(g, u, guess) ==
    IF game[g].stage = "absent" THEN "invalid_game"
    ELSE IF validate_guessed_number(game[g], guess) # "ok"
         THEN validate_guessed_number(game[g], guess)
    ELSE IF \E j \in 1..Len(submissions) :
               submissions[j].user = u /\ submissions[j].game = g
         THEN "duplicate"
    ELSE "type_error"

SubmissionCreate(g, u, guess) ==
    /\ event' = [NoEvent EXCEPT !.op = "submit", !.p = u, !.g = g,
                                !.outcome = SubmissionCreateOutcome(g, u, guess)]
    /\ UNCHANGED <<now, game, submissions, gameHistories, winningNumbers,
                   winnerHistories, rewardMessages, closer>>
    /\ UNCHANGED reelVars

\* PUT / PATCH of row i by its owner; new_game, new_guess: the fields sent.
\* validate_guessed_number runs only when guessed_number is sent; then
\* ModelSerializer.update sets the fields and calls GameSubmission.save.
SubmissionUpdateOutcome(i, new_game, new_guess) ==
    LET sub == submissions[i]
        tg == IF new_game # NotSent THEN new_game ELSE sub.game
        tguess == IF new_guess # NotSent THEN new_guess ELSE sub.guessed_number
    IN  IF game[tg].stage = "absent" THEN "invalid_game"
        ELSE IF new_guess # NotSent /\ validate_guessed_number(game[tg], new_guess) # "ok"
             THEN validate_guessed_number(game[tg], new_guess)
        ELSE IF SaveRaisesValueError(game[tg], tguess) THEN "value_error"
        ELSE IF ~UniqueTogetherHolds(submissions, tg, sub.user, i) THEN "integrity_error"
        ELSE "updated"

SubmissionUpdate(i, new_game, new_guess) ==
    LET sub == submissions[i]
        out == SubmissionUpdateOutcome(i, new_game, new_guess)
        tg == IF new_game # NotSent THEN new_game ELSE sub.game
        tguess == IF new_guess # NotSent THEN new_guess ELSE sub.guessed_number
    IN
    /\ i \in 1..Len(submissions)
    /\ new_game # NotSent \/ new_guess # NotSent
    /\ submissions' = IF out = "updated"
                      THEN [submissions EXCEPT ![i].game = tg,
                                               ![i].guessed_number = tguess]
                      ELSE submissions
    /\ event' = [NoEvent EXCEPT !.op = "update", !.outcome = out,
                                !.i = IF out = "updated" THEN i ELSE 0]
    /\ UNCHANGED <<now, game, gameHistories, winningNumbers,
                   winnerHistories, rewardMessages, closer>>
    /\ UNCHANGED reelVars

\* how many rows of game g come before row i, plus one
RankIn(subs, g, i) == Cardinality({j \in 1..i : subs[j].game = g})

\* staff action mark_winners on row i: the first number_of_winners rows of
\* its game, by submitted_at, get mark_winner(position)
MarkWinners(i) ==
    LET g == submissions[i].game
        n == game[g].number_of_winners
    IN
    /\ i \in 1..Len(submissions)
    /\ submissions' = [j \in 1..Len(submissions) |->
          IF submissions[j].game = g /\ RankIn(submissions, g, j) <= n
          THEN [submissions[j] EXCEPT !.is_winner = TRUE,
                                      !.prize_position = RankIn(submissions, g, j)]
          ELSE submissions[j]]
    /\ event' = [NoEvent EXCEPT !.op = "mark_winners", !.g = g, !.outcome = "marked"]
    /\ UNCHANGED <<now, game, gameHistories, winningNumbers,
                   winnerHistories, rewardMessages, closer>>
    /\ UNCHANGED reelVars

SubmitInit ==
    /\ now = 0
    /\ game = [g \in SubmitGameIds |-> AbsentGame]
    /\ submissions = <<>>
    /\ gameHistories = {}
    /\ winningNumbers = {}
    /\ winnerHistories = <<>>
    /\ rewardMessages = {}
    /\ closer = [p \in Triggers |-> IdleCloser]
    /\ event = NoEvent
    /\ totalUsers = 0
    /\ reels = <<>>
    /\ profiles = [u \in Users |-> [total_share_points |-> 0, badge_type |-> "",
                                     total_reach |-> 0]]
    /\ shares = {}
    /\ requests = [p \in Requests |-> IdleRequest]

\* The submission handlers read is_active, end_time and the guess range of a
\* game, which the row has from its insertion on; the commitment fields play
\* no part here, so the games are followed from CreateGameInsert.
SubmitNext ==
    \/ Tick
    \/ \E g \in SubmitGameIds, u \in Creators, rng \in GuessRanges :
          CreateGameInsert(g, u, rng, 1, TRUE)
    \/ \E g \in SubmitGameIds, u \in Submitters, guess \in Guesses :
          GameSubmissionSave(g, u, guess)
    \/ \E g \in SubmitGameIds, u \in Submitters, guess \in Guesses :
          SubmissionCreate(g, u, guess)
    \/ \E i \in 1..MaxSubs, new_game \in SubmitGameIds \cup {NotSent},
          new_guess \in Guesses \cup {NotSent} : SubmissionUpdate(i, new_game, new_guess)
    \/ \E i \in 1..MaxSubs : MarkWinners(i)

SubmitSpec == SubmitInit /\ [][SubmitNext]_vars

\* ------------------------------------------------------------------------
\* PATCH and DELETE /games/<id>/ : GameViewSet.perform_update, perform_destroy
\* ------------------------------------------------------------------------
\* user.is_staff
Staff == {"s1"}

\* who sends the requests: the creator, a staff member, a player
Editors == Creators \cup Staff \cup {"u1"}

\* the fields a PATCH may carry: text stands for description, image or link;
\* NotSent for a number the request leaves out
UpdateAttrs ==
    [text : BOOLEAN,
     number_of_winners : {NotSent, 1, 2},
     guess_min : {NotSent, 3},
     guess_max : {NotSent, 4},
     is_active : {"unsent", "false"}]

\* GameSerializer.validate on the fields of a partial update: it sees only
\* what the request carries
UpdateInvalid(attrs) ==
    \/ ~attrs.text
    \/ (attrs.guess_min # NotSent /\ attrs.guess_max # NotSent
          /\ attrs.guess_max <= attrs.guess_min)
    \/ (IF attrs.number_of_winners = NotSent THEN 0 ELSE attrs.number_of_winners) < 1

HasSubmissions(g) == \E i \in 1..Len(submissions) : submissions[i].game = g

\* variant: no field is restricted
RestrictedSent_None(attrs) == FALSE

\* one of the restricted fields is in validated_data
RestrictedSent(attrs) ==
    \/ attrs.text
    \/ attrs.number_of_winners # NotSent
    \/ attrs.guess_min # NotSent
    \/ attrs.guess_max # NotSent

\* get_object over the active games, is_valid, then perform_update
GameUpdateOutcome(g, u, attrs) ==
    IF game[g].stage = "absent" \/ ~game[g].is_active THEN "not_found"
    ELSE IF UpdateInvalid(attrs) THEN "invalid"
    ELSE IF ~(u \in Staff \/ u = game[g].creator) THEN "denied"
    ELSE IF HasSubmissions(g) /\ RestrictedSent(attrs) THEN "restricted"
    ELSE "updated"

\* serializer.save(): the fields sent are written, nothing is drawn again
GameUpdate(g, u, attrs) ==
    LET out == GameUpdateOutcome(g, u, attrs)
        gm == game[g]
    IN
    \* the request that creates the game has returned
    /\ gm.stage # "inserted"
    /\ game' = IF out # "updated" THEN game
               ELSE [game EXCEPT ![g] =
                       [gm EXCEPT
                          !.number_of_winners = IF attrs.number_of_winners = NotSent
                                                THEN @ ELSE attrs.number_of_winners,
                          !.guess_min = IF attrs.guess_min = NotSent THEN @
                                        ELSE attrs.guess_min,
                          !.guess_max = IF attrs.guess_max = NotSent THEN @
                                        ELSE attrs.guess_max,
                          !.is_active = IF attrs.is_active = "unsent" THEN @
                                        ELSE attrs.is_active = "true"]]
    /\ event' = [NoEvent EXCEPT !.op = "game_update", !.g = g, !.outcome = out]
    /\ UNCHANGED <<now, submissions, gameHistories, winningNumbers,
                   winnerHistories, rewardMessages, closer>>
    /\ UNCHANGED reelVars

GameDestroyOutcome(g, u) ==
    IF game[g].stage = "absent" \/ ~game[g].is_active THEN "not_found"
    ELSE IF ~(u \in Staff \/ u = game[g].creator) THEN "denied"
    ELSE IF HasSubmissions(g) THEN "has_participants"
    ELSE "deleted"

\* perform_destroy: a soft delete
GameDestroy(g, u) ==
    LET out == GameDestroyOutcome(g, u) IN
    /\ game[g].stage # "inserted"
    /\ game' = IF out = "deleted" THEN [game EXCEPT ![g].is_active = FALSE] ELSE game
    /\ event' = [NoEvent EXCEPT !.op = "game_delete", !.g = g, !.outcome = out]
    /\ UNCHANGED <<now, submissions, gameHistories, winningNumbers,
                   winnerHistories, rewardMessages, closer>>
    /\ UNCHANGED reelVars

EditInit ==
    /\ now = 0
    /\ game = [g \in GameIds |-> AbsentGame]
    /\ submissions = <<>>
    /\ gameHistories = {}
    /\ winningNumbers = {}
    /\ winnerHistories = <<>>
    /\ rewardMessages = {}
    /\ closer = [p \in Triggers |-> IdleCloser]
    /\ event = NoEvent
    /\ totalUsers = 0
    /\ reels = <<>>
    /\ profiles = [u \in Users |-> [total_share_points |-> 0, badge_type |-> "",
                                     total_reach |-> 0]]
    /\ shares = {}
    /\ requests = [p \in Requests |-> IdleRequest]

EditNext ==
    \/ Tick
    \/ \E g \in GameIds, u \in Creators, rng \in GuessRanges :
          CreateGameInsert(g, u, rng, 1, TRUE)
    \/ \E g \in GameIds : CreateGameCommit(g)
    \/ \E g \in GameIds, u \in Submitters, guess \in Guesses :
          GameSubmissionSave(g, u, guess)
    \/ \E g \in GameIds, u \in Editors, attrs \in UpdateAttrs : GameUpdate(g, u, attrs)
    \/ \E g \in GameIds, u \in Editors : GameDestroy(g, u)
    \/ \E g \in GameIds : CloseLoad("sweep", g)
    \/ CloseGuard("sweep")
    \/ CloseHistory("sweep")
    \/ CloseSelect("sweep", FALSE)

EditSpec == EditInit /\ [][EditNext]_vars

\* ------------------------------------------------------------------------
\* Rewards: WinnerHistory.claim_reward and WinnerHistory.mark_delivered
\* ------------------------------------------------------------------------
\* variant: claim_reward without the deadline test
ClaimRewardRaises_NoDeadline(wh) ==
    IF wh.is_claimed THEN "already_claimed" ELSE "ok"

\* the two guards of claim_reward
ClaimRewardRaises(wh) ==
    IF wh.is_claimed THEN "already_claimed"
    ELSE IF wh.claim_deadline # NoTime /\ now > wh.claim_deadline THEN "expired"
    ELSE "ok"

\* variant: mark_delivered without the is_claimed test
MarkDeliveredRaises_NoClaimTest(wh) ==
    IF wh.reward_delivery_deadline # NoTime /\ now > wh.reward_delivery_deadline
    THEN "expired"
    ELSE IF wh.reward_delivered THEN "already_delivered"
    ELSE "ok"

\* the three guards of mark_delivered, in the order of the code
MarkDeliveredRaises(wh) ==
    IF ~wh.is_claimed THEN "not_claimed"
    ELSE IF wh.reward_delivery_deadline # NoTime /\ now > wh.reward_delivery_deadline
         THEN "expired"
    ELSE IF wh.reward_delivered THEN "already_delivered"
    ELSE "ok"

\* claim_reward on WinnerHistory i: guards, save, e-mail to the creator, message
ClaimReward(i, fails) ==
    LET wh == winnerHistories[i]
        out == ClaimRewardRaises(wh)
    IN
    /\ i \in 1..Len(winnerHistories)
    /\ IF out # "ok"
       THEN /\ event' = [NoEvent EXCEPT !.op = "claim", !.i = i, !.outcome = out]
            /\ UNCHANGED <<winnerHistories, rewardMessages>>
       ELSE /\ winnerHistories' = [winnerHistories EXCEPT
                  ![i].is_claimed = TRUE,
                  ![i].claimed_at = now,
                  ![i].reward_delivery_deadline = now + DeliveryDays * HoursPerDay]
            /\ IF SendMailRaises(fails)
               THEN /\ UNCHANGED rewardMessages
                    /\ event' = [NoEvent EXCEPT !.op = "claim", !.i = i,
                                    !.outcome = "mail_error", !.mail_failed = fails]
               ELSE /\ rewardMessages' = rewardMessages \cup
                          {[wh |-> i, sender |-> wh.user, kind |-> "claimed"]}
                    /\ event' = [NoEvent EXCEPT !.op = "claim", !.i = i,
                                    !.outcome = "claimed", !.mail_failed = fails]
    /\ UNCHANGED <<now, game, submissions, gameHistories, winningNumbers, closer>>
    /\ UNCHANGED reelVars

\* mark_delivered on WinnerHistory i: guards, save, message, e-mail to the winner
MarkDelivered(i, fails) ==
    LET wh == winnerHistories[i]
        out == MarkDeliveredRaises(wh)
    IN
    /\ i \in 1..Len(winnerHistories)
    /\ IF out # "ok"
       THEN /\ event' = [NoEvent EXCEPT !.op = "deliver", !.i = i, !.outcome = out]
            /\ UNCHANGED <<winnerHistories, rewardMessages>>
       ELSE /\ winnerHistories' = [winnerHistories EXCEPT ![i].reward_delivered = TRUE]
            /\ rewardMessages' = rewardMessages \cup
                  {[wh |-> i, sender |-> game[wh.game].creator, kind |-> "delivered"]}
            /\ event' = [NoEvent EXCEPT !.op = "deliver", !.i = i,
                            !.outcome = IF SendMailRaises(fails) THEN "mail_error"
                                        ELSE "delivered",
                            !.mail_failed = fails]
    /\ UNCHANGED <<now, game, submissions, gameHistories, winningNumbers, closer>>
    /\ UNCHANGED reelVars

\* the clock of the reward phase moves in weeks
TickWeek ==
    /\ now < MaxWeeks * DeliveryDays * HoursPerDay
    /\ now' = now + DeliveryDays * HoursPerDay
    /\ event' = NoEvent
    /\ UNCHANGED <<game, submissions, gameHistories, winningNumbers,
                   winnerHistories, rewardMessages, closer>>
    /\ UNCHANGED reelVars

RewardInit ==
    /\ now = 0
    /\ game = [g \in GameIds |-> AbsentGame]
    /\ submissions = <<>>
    /\ gameHistories = {}
    /\ winningNumbers = {}
    /\ winnerHistories = <<>>
    /\ rewardMessages = {}
    /\ closer = [p \in Triggers |-> IdleCloser]
    /\ event = NoEvent
    /\ totalUsers = 0
    /\ reels = <<>>
    /\ profiles = [u \in Users |-> [total_share_points |-> 0, badge_type |-> "",
                                     total_reach |-> 0]]
    /\ shares = {}
    /\ requests = [p \in Requests |-> IdleRequest]

\* a game is created, played and closed by the sweep; its winners then claim
RewardNext ==
    \/ TickWeek
    \/ \E g \in GameIds, u \in Creators, rng \in GuessRanges :
          CreateGameInsert(g, u, rng, 1, TRUE)
    \/ \E g \in GameIds : CreateGameCommit(g)
    \/ \E g \in GameIds, u \in Users, guess \in Guesses : GameSubmissionSave(g, u, guess)
    \/ \E g \in GameIds, number \in Guesses : WinningNumberAdminAdd(g, number)
    \/ \E g \in GameIds : CloseLoad("sweep", g)
    \/ CloseGuard("sweep")
    \/ CloseHistory("sweep")
    \/ \E fails \in BOOLEAN : CloseSelect("sweep", fails)
    \/ \E i \in 1..MaxWinners, fails \in BOOLEAN : ClaimReward(i, fails)
    \/ \E i \in 1..MaxWinners, fails \in BOOLEAN : MarkDelivered(i, fails)

RewardSpec == RewardInit /\ [][RewardNext]_vars

\* ------------------------------------------------------------------------
\* generate_winning_numbers over a range of inputs
\* ------------------------------------------------------------------------
\* the (guess_min, guess_max) pairs GameSerializer.validate lets through
GenRanges == {rng \in (1..MaxGuess) \X (1..MaxGuess) : rng[2] > rng[1]}

\* perform_create has inserted the row of a game with some range and some
\* number of winners; the draw is still to come
GenInit ==
    /\ now = 0
    /\ \E u \in Creators, rng \in GenRanges, n \in 1..(MaxGuess + 1), s \in SaveSalts :
          /\ GameSerializerValidate(rng[1], rng[2], n)
          /\ game = [g \in GameIds |-> InsertedGame(u, rng, n, TRUE, s)]
    /\ submissions = <<>>
    /\ gameHistories = {}
    /\ winningNumbers = {}
    /\ winnerHistories = <<>>
    /\ rewardMessages = {}
    /\ closer = [p \in Triggers |-> IdleCloser]
    /\ event = NoEvent
    /\ totalUsers = 0
    /\ reels = <<>>
    /\ profiles = [u \in Users |-> [total_share_points |-> 0, badge_type |-> "",
                                     total_reach |-> 0]]
    /\ shares = {}
    /\ requests = [p \in Requests |-> IdleRequest]

GenNext ==
    \/ \E g \in GameIds : CreateGameCommit(g)
    \/ \E g \in GameIds : CreateGameFail(g)

GenSpec == GenInit /\ [][GenNext]_vars

\* ------------------------------------------------------------------------
\* Reels: reach estimation and share points
\* ------------------------------------------------------------------------
Max(a, b) == IF a > b THEN a ELSE b

\* round() of the rational num / den: half to even
RoundHalfEven(num, den) ==
    LET q == num \div den
        r == num % den
    IN  IF 2 * r < den THEN q
        ELSE IF 2 * r > den THEN q + 1
        ELSE IF q % 2 = 0 THEN q ELSE q + 1

\* settings.BADGE_TIERS
BadgeTiers == [silver |-> 1000, gold |-> 5000, platinum |-> 20000, cientium |-> 100000]

\* profile.followers.count(), per user
followers_count == [u \in Users |-> IF u = "u1" THEN 3 ELSE 0]

\* the values the random source returns in one reach computation:
\* randint(200, 700), uniform(0.05, 0.2) in hundredths, and the viral roll
\* with uniform(1.5, 3.0) in tenths (10: the roll missed)
RandomDraws == [base : {200, 700}, boost : {5, 20}, viral : {10, 30}]

\* ten times the weighted engagement sum of calculate_reel_reach
EngagementReach10(reel) ==
    reel.likes * 15 + reel.comments * 30 + reel.replies * 40 + reel.shares * 60
      + reel.saves * 50 + reel.views * 2 + 1 * 20

\* calculate_reel_reach; badge_min_reach = 0 stands for None.  The floats
\* are kept exact as numerators over den; the final min with total_users is
\* distributed over the badge max, min(max(a, b), c) = max(min(a, c), min(b, c)),
\* which keeps every product within TLC's integers.
calculate_reel_reach(reel, followers, badge_min_reach, rnd) ==
    LET total_users == totalUsers
        initial_reach == Min(followers + rnd.base, total_users)
        e10 == EngagementReach10(reel)
        v == Max(1, reel.views + 1)
        den == 2000 * v
        boosted == IF e10 > 0 THEN e10 * (100 + rnd.boost) ELSE e10 * 100
        before_cap == (initial_reach * 1000 + boosted) * 2 * v
        max_reach == initial_reach * (2 * v + Min(e10, 20 * v)) * 1000
        capped == Min(before_cap, max_reach)
        viral == IF e10 > 100 THEN (capped * rnd.viral) \div 10 ELSE capped
        badged == IF badge_min_reach # 0
                  THEN Max(Min(viral, total_users * den),
                           Min(badge_min_reach, total_users) * den)
                  ELSE Min(viral, total_users * den)
    IN  RoundHalfEven(badged, den)

\* calculate_share_points
calculate_share_points(reel) ==
    LET p10 == reel.likes * 15 + reel.comments * 30 + reel.replies * 40
                 + reel.saves * 50 + 60 + reel.views * 2
        vf == IF reel.reach > 5000 THEN Max(30000, 100000 - reel.reach) ELSE 100000
    IN  RoundHalfEven(Max(p10 * vf, MIN_SHARE_BONUS * 1000000), 1000000)

\* the daily first-shares multiplier of share
BonusPoints(points, shares_today) ==
    IF shares_today = 0 THEN RoundHalfEven(points * 3, 2)
    ELSE IF shares_today <= 2 THEN RoundHalfEven(points * 6, 5)
    ELSE points

\* variant: the tiers tested from the lowest up
BadgeFor_LowestFirst(points) ==
    IF points >= BadgeTiers.silver THEN "silver"
    ELSE IF points >= BadgeTiers.gold THEN "gold"
    ELSE IF points >= BadgeTiers.platinum THEN "platinum"
    ELSE IF points >= BadgeTiers.cientium THEN "cientium"
    ELSE ""

\* the badge assignment of share
BadgeFor(points) ==
    IF points >= BadgeTiers.cientium THEN "cientium"
    ELSE IF points >= BadgeTiers.platinum THEN "platinum"
    ELSE IF points >= BadgeTiers.gold THEN "gold"
    ELSE IF points >= BadgeTiers.silver THEN "silver"
    ELSE ""

\* variant: no cap
CapPoints_None(total) == total

\* the cap of share: total_share_points stops at the cientium threshold
CapPoints(total) == IF total > BadgeTiers.cientium THEN BadgeTiers.cientium ELSE total

\* the badge-specific minimum reach of share, 0 for None
BadgeMinReach(badge_type) ==
    CASE badge_type = "silver" -> 10000
      [] badge_type = "gold" -> 100000
      [] badge_type = "platinum" -> 1000000
      [] badge_type = "cientium" -> 10000000
      [] OTHER -> 0

RECURSIVE SumReach(_, _)
SumReach(rs, u) ==
    IF rs = <<>> THEN 0
    ELSE (IF Head(rs).user = u THEN Head(rs).reach ELSE 0) + SumReach(Tail(rs), u)

\* signals.update_user_total_reach, run after every Reel save
update_user_total_reach(ps, rs, u) ==
    [ps EXCEPT ![u].total_reach = SumReach(rs, u)]

\* update_profile_reach
update_profile_reach(ps, u, delta) ==
    IF delta = 0 THEN ps
    ELSE [ps EXCEPT ![u].total_reach = Max(ps[u].total_reach + delta, 0)]

\* the accounts at the start: u1 has no points yet, u2 has or has not
\* reached the silver tier
InitialAccruals ==
    {[u \in Users |-> [total_share_points |-> IF u = "u2" THEN p ELSE 0,
                       badge_type |-> IF u = "u2" THEN BadgeFor(p) ELSE "",
                       total_reach |-> 0]] : p \in {0, BadgeTiers.silver}}

UserCounts == {2, 210}

ReelInit ==
    /\ now = 0
    /\ totalUsers \in UserCounts
    /\ reels = <<>>
    /\ profiles \in InitialAccruals
    /\ shares = {}
    /\ requests = [p \in Requests |-> IdleRequest]
    \* no game activity in the reel specification
    /\ game = [g \in GameIds |-> AbsentGame]
    /\ submissions = <<>>
    /\ gameHistories = {}
    /\ winningNumbers = {}
    /\ winnerHistories = <<>>
    /\ rewardMessages = {}
    /\ closer = [p \in Triggers |-> IdleCloser]
    /\ event = NoEvent

TickHour ==
    /\ now < MaxHours
    /\ now' = now + 1
    /\ UNCHANGED <<totalUsers, reels, profiles, shares, requests>>
    /\ UNCHANGED gameVars

\* ReelViewSet.perform_create
ReelPerformCreate(u, rnd) ==
    LET badge_min_reach == IF profiles[u].badge_type # "" THEN 10000 ELSE 0
        fresh == [user |-> u, likes |-> 0, comments |-> 0, replies |-> 0,
                  saves |-> 0, shares |-> 0, views |-> 0, reach |-> 0]
        reach == calculate_reel_reach(fresh, followers_count[u], badge_min_reach, rnd)
        rs == Append(reels, [fresh EXCEPT !.reach = reach])
    IN
    /\ Len(reels) < MaxReels
    /\ reels' = rs
    /\ profiles' = update_user_total_reach(profiles, rs, u)
    /\ UNCHANGED <<now, totalUsers, shares, requests>>
    /\ UNCHANGED gameVars

\* ReelViewSet.add_view
AddView(r, rnd) ==
    LET viewed == [reels[r] EXCEPT !.views = @ + 1]
        reach == calculate_reel_reach(viewed, followers_count[viewed.user], 0, rnd)
        rs == [reels EXCEPT ![r] = [viewed EXCEPT !.reach = reach]]
    IN
    /\ r \in 1..Len(reels)
    /\ reels[r].views < MaxViews
    /\ reels' = rs
    /\ profiles' = update_user_total_reach(profiles, rs, viewed.user)
    /\ UNCHANGED <<now, totalUsers, shares, requests>>
    /\ UNCHANGED gameVars

\* the sharer's most recent reel other than r, 0 if none
NextReel(rs, u, r) ==
    IF \E k \in 1..Len(rs) : k # r /\ rs[k].user = u
    THEN CHOOSE k \in 1..Len(rs) :
            /\ k # r /\ rs[k].user = u
            /\ \A j \in 1..Len(rs) : (j # r /\ rs[j].user = u) => j <= k
    ELSE 0

\* steps 3 to 7 of share, for a request that loaded reel (the row of id r)
\* and computed points: the reel and profile rows it leaves
ShareAward(rs, ps, reel, r, u, points, rnd) ==
    LET owner == reel.user
        \* step 3: the shares counter
        counted == [reel EXCEPT !.shares = @ + 1]
        \* step 5: points, badge, cap
        total == ps[u].total_share_points + points
        badge == BadgeFor(total)
        ps1 == [ps EXCEPT ![u].total_share_points = CapPoints(total),
                          ![u].badge_type = badge]
        \* step 6: the shared reel's reach
        badge_min_reach == BadgeMinReach(badge)
        reach == calculate_reel_reach(counted, followers_count[owner], badge_min_reach, rnd)
        rs1 == [rs EXCEPT ![r].shares = counted.shares, ![r].reach = reach]
        ps2 == update_profile_reach(update_user_total_reach(ps1, rs1, owner),
                                    owner, reach - reel.reach)
        \* step 7: the sharer's other reel
        nxt == IF badge # "" THEN NextReel(rs1, u, r) ELSE 0
        rs2 == IF nxt # 0
               THEN [rs1 EXCEPT ![nxt].reach = Max(rs1[nxt].reach, badge_min_reach)]
               ELSE rs1
        ps3 == IF nxt # 0 THEN update_user_total_reach(ps2, rs2, u) ELSE ps2
    IN  [reels |-> rs2, profiles |-> ps3]

\* step 0 of share: the counts of the sharer's recent Share rows
SharesLastHour(u) ==
    Cardinality({s \in shares : s.sharer = u /\ s.created_at >= now - 1})

SharesToday(u) ==
    Cardinality({s \in shares : s.sharer = u
                                /\ s.created_at >= now - (now % HoursPerDay)})

\* Share.objects.create: the row of a new Share, points_earned at its default
NewShare(r, u) ==
    [id |-> Cardinality(shares) + 1, reel |-> r, sharer |-> u,
     points_earned |-> 0, created_at |-> now]

\* ReelViewSet.share, served with no other request in between
Share(r, u, rnd) ==
    LET reel == reels[r]
        points == BonusPoints(calculate_share_points(reel), SharesToday(u))
        award == ShareAward(reels, profiles, reel, r, u, points, rnd)
    IN
    /\ r \in 1..Len(reels)
    /\ Cardinality(shares) < MaxShares
    /\ SharesLastHour(u) < MAX_HOURLY_SHARES
    /\ SharesToday(u) < MAX_DAILY_SHARES
    /\ ~\E s \in shares : s.reel = r /\ s.sharer = u
    /\ shares' = shares \cup {[NewShare(r, u) EXCEPT !.points_earned = points]}
    /\ reels' = award.reels
    /\ profiles' = award.profiles
    /\ UNCHANGED <<now, totalUsers, requests>>
    /\ UNCHANGED gameVars

ReelNext ==
    \/ TickHour
    \/ \E u \in Users, rnd \in RandomDraws : ReelPerformCreate(u, rnd)
    \/ \E r \in 1..MaxReels, rnd \in RandomDraws : AddView(r, rnd)
    \/ \E r \in 1..MaxReels, u \in Users, rnd \in RandomDraws : Share(r, u, rnd)

ReelSpec == ReelInit /\ [][ReelNext]_vars

\* ------------------------------------------------------------------------
\* shares by accounts that are one share short of a tier
\* ------------------------------------------------------------------------
\* u1 has no points yet; u2 has none or is within one minimum award of a tier
BadgeAccruals ==
    {[u \in Users |-> [total_share_points |-> IF u = "u2" THEN p ELSE 0,
                       badge_type |-> IF u = "u2" THEN BadgeFor(p) ELSE "",
                       total_reach |-> 0]] :
        p \in {0} \cup {BadgeTiers[t] - MIN_SHARE_BONUS : t \in DOMAIN BadgeTiers}}

BadgeInit ==
    /\ now = 0
    /\ totalUsers \in UserCounts
    /\ reels = <<>>
    /\ profiles \in BadgeAccruals
    /\ shares = {}
    /\ requests = [p \in Requests |-> IdleRequest]
    /\ game = [g \in GameIds |-> AbsentGame]
    /\ submissions = <<>>
    /\ gameHistories = {}
    /\ winningNumbers = {}
    /\ winnerHistories = <<>>
    /\ rewardMessages = {}
    /\ closer = [p \in Triggers |-> IdleCloser]
    /\ event = NoEvent

BadgeNext ==
    \/ \E u \in Users, rnd \in RandomDraws : ReelPerformCreate(u, rnd)
    \/ \E r \in 1..MaxReels, u \in Users, rnd \in RandomDraws : Share(r, u, rnd)

BadgeSpec == BadgeInit /\ [][BadgeNext]_vars

\* ------------------------------------------------------------------------
\* reels of badge holders on a platform with more users than the silver and
\* gold floors
\* ------------------------------------------------------------------------
FloorInit ==
    /\ now = 0
    /\ totalUsers = LargeUserCount
    /\ reels = <<>>
    /\ profiles \in BadgeAccruals
    /\ shares = {}
    /\ requests = [p \in Requests |-> IdleRequest]
    /\ game = [g \in GameIds |-> AbsentGame]
    /\ submissions = <<>>
    /\ gameHistories = {}
    /\ winningNumbers = {}
    /\ winnerHistories = <<>>
    /\ rewardMessages = {}
    /\ closer = [p \in Triggers |-> IdleCloser]
    /\ event = NoEvent

FloorNext ==
    \/ \E u \in Users, rnd \in RandomDraws : ReelPerformCreate(u, rnd)
    \/ \E r \in 1..MaxReels, u \in Users, rnd \in RandomDraws : Share(r, u, rnd)

FloorSpec == FloorInit /\ [][FloorNext]_vars

\* ------------------------------------------------------------------------
\* The feed endpoint
\* ------------------------------------------------------------------------
\* the ids of the Reel rows, and an id no row has
FeedReelIds == {1, 2, 3}

MissingReelId == Cardinality(FeedReelIds) + 1

\* the values calculate_feed_score takes in one request
FeedScores == {1, 2}

\* no last_reel_id in the query string
NoCursor == 0

\* the sequences over S of at most n elements, none twice: what a sliced
\* queryset can hold
RowsOf(S, n) == UNION {Samples(S, k) : k \in 0..n}

\* "[r for r in combined_feed if r.id not in hidden_ids]"
WithoutHidden(feed, hidden_ids) == SelectSeq(feed, LAMBDA r : r \notin hidden_ids)

\* the seen_ids loop: the first occurrence of each id, in order
RECURSIVE Unique(_, _)
Unique(feed, seen_ids) ==
    IF feed = <<>> THEN <<>>
    ELSE IF Head(feed) \in seen_ids THEN Unique(Tail(feed), seen_ids)
    ELSE <<Head(feed)>> \o Unique(Tail(feed), seen_ids \cup {Head(feed)})

\* list.sort(key=score, reverse=True): descending, equal scores keep their order
RECURSIVE SortByScore(_, _)
SortByScore(feed, score) ==
    IF feed = <<>> THEN <<>>
    ELSE LET best == CHOOSE i \in 1..Len(feed) :
                        /\ \A j \in 1..Len(feed) : score[feed[j]] <= score[feed[i]]
                        /\ \A j \in 1..(i - 1) : score[feed[j]] < score[feed[i]]
             rest == [k \in 1..(Len(feed) - 1) |-> IF k < best THEN feed[k] ELSE feed[k + 1]]
         IN  <<feed[best]>> \o SortByScore(rest, score)

\* the index of last_reel_id in the ranking, 0 on StopIteration
IndexOf(ranked, last_reel_id) ==
    IF \E i \in 1..Len(ranked) : ranked[i] = last_reel_id
    THEN CHOOSE i \in 1..Len(ranked) : ranked[i] = last_reel_id
    ELSE 0

\* step 4: the ranking from the cursor on
AfterCursor(ranked, last_reel_id) ==
    IF last_reel_id = NoCursor \/ IndexOf(ranked, last_reel_id) = 0 THEN ranked
    ELSE SubSeq(ranked, IndexOf(ranked, last_reel_id) + 1, Len(ranked))

\* the slice reels_list[:limit]; a negative limit counts from the end
SliceTo(reels_list, limit) ==
    IF limit >= 0 THEN SubSeq(reels_list, 1, Min(limit, Len(reels_list)))
    ELSE SubSeq(reels_list, 1, Len(reels_list) + limit)

\* ReelViewSet.feed, one request: the response for the three slices, the
\* viewer's hidden reels, the scores of this request and the query parameters
Feed(personalized, fresh, social, hidden_ids, score, last_reel_id, limit) ==
    LET combined_feed == Unique(WithoutHidden(personalized \o fresh \o social, hidden_ids), {})
        scored_reels == SortByScore(combined_feed, score)
        paginated_reels == SliceTo(AfterCursor(scored_reels, last_reel_id), limit)
    IN
    /\ event' = [op |-> "feed", hidden_ids |-> hidden_ids, score |-> score,
                 ranked |-> scored_reels, last_reel_id |-> last_reel_id,
                 limit |-> limit, results |-> paginated_reels]
    /\ UNCHANGED <<now, game, submissions, gameHistories, winningNumbers,
                   winnerHistories, rewardMessages, closer>>
    /\ UNCHANGED reelVars

FeedInit ==
    /\ now = 0
    /\ totalUsers = 0
    /\ reels = <<>>
    /\ profiles = [u \in Users |-> [total_share_points |-> 0, badge_type |-> "",
                                     total_reach |-> 0]]
    /\ shares = {}
    /\ requests = [p \in Requests |-> IdleRequest]
    /\ game = [g \in GameIds |-> AbsentGame]
    /\ submissions = <<>>
    /\ gameHistories = {}
    /\ winningNumbers = {}
    /\ winnerHistories = <<>>
    /\ rewardMessages = {}
    /\ closer = [p \in Triggers |-> IdleCloser]
    /\ event = NoEvent

\* one request; get_user_feed leaves the hidden reels out of its slice, the
\* other two queries do not
FeedNext ==
    /\ event.op = "none"
    /\ \E hidden_ids \in {h \in SUBSET FeedReelIds : Cardinality(h) <= 1},
          fresh \in RowsOf(FeedReelIds, MaxSlice),
          social \in RowsOf(FeedReelIds, 1),
          score \in [FeedReelIds -> FeedScores],
          last_reel_id \in {NoCursor, MissingReelId} \cup FeedReelIds,
          limit \in (0 - 1)..MaxLimit :
            \E personalized \in RowsOf(FeedReelIds \ hidden_ids, MaxSlice) :
               Feed(personalized, fresh, social, hidden_ids, score, last_reel_id, limit)

FeedSpec == FeedInit /\ [][FeedNext]_vars

\* ------------------------------------------------------------------------
\* share served as concurrent requests: each request does its queries and
\* writes one statement group at a time, other requests in between
\* ------------------------------------------------------------------------
InFlight == Cardinality({p \in Requests : requests[p].pc # "idle"})

Returned(outcome) == [IdleRequest EXCEPT !.outcome = outcome]

\* variant: the handler goes on after finding the pair's row
ShareReturnsEarly_Never(created) == FALSE

\* "if not created: return"
ShareReturnsEarly(created) == ~created

\* get_object and steps 0 and 1: load the reel, count, compute the points,
\* test the caps
ShareStart(p, r, u) ==
    LET points == BonusPoints(calculate_share_points(reels[r]), SharesToday(u))
    IN
    /\ requests[p].pc = "idle"
    /\ r \in 1..Len(reels)
    /\ Cardinality(shares) + InFlight < MaxShares
    /\ requests' = [requests EXCEPT ![p] =
          IF SharesLastHour(u) >= MAX_HOURLY_SHARES THEN Returned("hourly_limit")
          ELSE IF SharesToday(u) >= MAX_DAILY_SHARES THEN Returned("daily_limit")
          ELSE [pc |-> "get", reel |-> r, user |-> u, points |-> points,
                loaded |-> reels[r], row |-> 0, created |-> FALSE,
                total |-> 0, outcome |-> "none"]]
    /\ UNCHANGED <<now, totalUsers, reels, profiles, shares>>
    /\ UNCHANGED gameVars

\* step 2, the query of get_or_create
ShareGet(p) ==
    LET rq == requests[p]
        found == {s \in shares : s.reel = rq.reel /\ s.sharer = rq.user}
    IN
    /\ rq.pc = "get"
    /\ requests' = [requests EXCEPT ![p] =
          IF Cardinality(found) > 1 THEN Returned("multiple_objects")
          ELSE IF found = {} THEN [rq EXCEPT !.pc = "insert"]
          ELSE IF ShareReturnsEarly(FALSE) THEN Returned("already_shared")
          ELSE [rq EXCEPT !.pc = "finish",
                          !.row = (CHOOSE s \in found : TRUE).id]]
    /\ UNCHANGED <<now, totalUsers, reels, profiles, shares>>
    /\ UNCHANGED gameVars

\* step 2, the insert of get_or_create: the query found no row
ShareInsert(p) ==
    LET rq == requests[p]
        row == NewShare(rq.reel, rq.user)
    IN
    /\ rq.pc = "insert"
    /\ shares' = shares \cup {row}
    /\ requests' = [requests EXCEPT ![p] =
          IF ShareReturnsEarly(TRUE) THEN Returned("already_shared")
          ELSE [rq EXCEPT !.pc = "finish", !.row = row.id, !.created = TRUE]]
    /\ UNCHANGED <<now, totalUsers, reels, profiles>>
    /\ UNCHANGED gameVars

\* the shares value "reel.shares += 1" starts from: that of the instance
\* get_object loaded
StoredShares(loaded, stored) == loaded.shares

\* the total "profile.total_share_points += points" starts from: that of the
\* instance user.profile loaded
LoadedTotal(total, stored) == total

\* steps 3 and 4, and the query of "profile = user.profile" of step 5
ShareCount(p) ==
    LET rq == requests[p]
        r == rq.reel
        rs == [reels EXCEPT ![r].shares = StoredShares(rq.loaded, reels[r]) + 1]
    IN
    /\ rq.pc = "finish"
    /\ reels' = rs
    /\ shares' = {IF s.id = rq.row THEN [s EXCEPT !.points_earned = rq.points] ELSE s :
                    s \in shares}
    /\ profiles' = update_user_total_reach(profiles, rs, rq.loaded.user)
    /\ requests' = [requests EXCEPT ![p] =
                      [rq EXCEPT !.pc = "award",
                                 !.total = profiles[rq.user].total_share_points]]
    /\ UNCHANGED <<now, totalUsers>>
    /\ UNCHANGED gameVars

\* the rest of step 5, steps 6 to 8
ShareFinish(p, rnd) ==
    LET rq == requests[p]
        r == rq.reel
        u == rq.user
        total == LoadedTotal(rq.total, profiles[u].total_share_points)
        award == ShareAward(reels, [profiles EXCEPT ![u].total_share_points = total],
                            rq.loaded, r, u, rq.points, rnd)
    IN
    /\ rq.pc = "award"
    \* save(update_fields=["reach"]) leaves the shares column as it is
    /\ reels' = [award.reels EXCEPT ![r].shares = reels[r].shares]
    /\ profiles' = award.profiles
    /\ requests' = [requests EXCEPT ![p] = Returned("shared")]
    /\ UNCHANGED <<now, totalUsers, shares>>
    /\ UNCHANGED gameVars

ShareInit ==
    /\ now = 0
    /\ totalUsers \in UserCounts
    /\ reels = <<>>
    /\ profiles \in InitialAccruals
    /\ shares = {}
    /\ requests = [p \in Requests |-> IdleRequest]
    /\ game = [g \in GameIds |-> AbsentGame]
    /\ submissions = <<>>
    /\ gameHistories = {}
    /\ winningNumbers = {}
    /\ winnerHistories = <<>>
    /\ rewardMessages = {}
    /\ closer = [p \in Triggers |-> IdleCloser]
    /\ event = NoEvent

ShareNext ==
    \/ \E u \in Users, rnd \in RandomDraws : ReelPerformCreate(u, rnd)
    \/ \E p \in Requests, r \in 1..MaxReels, u \in Users : ShareStart(p, r, u)
    \/ \E p \in Requests : ShareGet(p)
    \/ \E p \in Requests : ShareInsert(p)
    \/ \E p \in Requests : ShareCount(p)
    \/ \E p \in Requests, rnd \in RandomDraws : ShareFinish(p, rnd)

ShareSpec == ShareInit /\ [][ShareNext]_vars

\* ------------------------------------------------------------------------
\* Properties of the game lifecycle
\* ------------------------------------------------------------------------
Committed(g) == game[g].stage = "committed"

SubsOf(g) == SelectSeq(submissions, LAMBDA s : s.game = g)

WinnersOf(g) == {i \in 1..Len(winnerHistories) : winnerHistories[i].game = g}

\* a stored ciphertext the close step cannot turn into a list of integers
Unreadable(encrypted) ==
    /\ encrypted # Null
    /\ \/ ~FernetDecrypt(encrypted).ok
       \/ \E part \in {Split(FernetDecrypt(encrypted).val, ",")[i] :
                         i \in 1..Len(Split(FernetDecrypt(encrypted).val, ","))} :
             ~ParseInt(part).ok

\* C2: for every game committed by perform_create, verify_fairness on the
\* numbers drawn at creation (original order) and the stored salt is true
C2_VerifyAcceptsCommitment ==
    \A g \in GameIds : Committed(g) => verify_fairness(game[g], game[g].drawn)

\* C3: what the close step decrypts and parses from winning_numbers_encrypted
\* is the list of numbers drawn and encrypted at creation
C3_EncryptedRoundTrip ==
    \A g \in GameIds : Committed(g) =>
        LET d == DecryptWinningNumbers(game[g].winning_numbers_encrypted)
        IN  d.ok /\ d.val = game[g].drawn

\* C4: a sweep close call on an auto_close game with a valid commitment ends
\* with the game inactive, winners_selected true and a WinnerHistory for every
\* committed value that has a matching submission
C4_SweepReachesWinnersSelected ==
    (event.op = "close" /\ event.p = "sweep" /\ Committed(event.g)) =>
        LET g == event.g
            subs == EligibleSubs(g, game[g].end_time)
        IN  /\ ~game[g].is_active
            /\ game[g].winners_selected
            /\ \A i \in 1..Min(Len(game[g].drawn), game[g].number_of_winners) :
                  FirstWith(subs, game[g].drawn[i]) # 0 =>
                     \E w \in WinnersOf(g) : winnerHistories[w].number = game[g].drawn[i]

\* C5: a close after end_time that ran to completion while some committed
\* value had no matching submission leaves min(number_of_winners, submissions)
\* WinnerHistory rows
C5_BackfillUnmatched ==
    (/\ event.op = "close" /\ event.outcome = "selected"
     /\ Committed(event.g) /\ now >= game[event.g].end_time
     /\ \E i \in 1..Len(game[event.g].drawn) :
           FirstWith(EligibleSubs(event.g, game[event.g].end_time),
                     game[event.g].drawn[i]) = 0) =>
        Cardinality(WinnersOf(event.g)) =
            Min(game[event.g].number_of_winners,
                Len(EligibleSubs(event.g, game[event.g].end_time)))

\* C6: a game that has a submission has a stored hash commitment
C6_CommitmentBeforeSubmissions ==
    \A i \in 1..Len(submissions) : game[submissions[i].game].hash_value # Null

\* C7: before end_time no close call decrypts the winning values and no
\* serialized game carries the salt or the plaintext winning values
C7_NothingRevealedBeforeEnd ==
    /\ event.op = "close" => ~event.early
    /\ (event.op = "game" /\ event.before_end /\ Committed(event.g)) =>
          (event.salt = Null /\ event.winning_numbers = <<>>)

\* C8: close invoked on an instance that is not active returns at once:
\* no error, no row created, no game field changed
C8_CloseOnClosedIsNoOp ==
    [][(event'.op = "close" /\ event'.p = "repeat") \/ closer'["repeat"] # closer["repeat"]
        => /\ event'.op = "close" /\ event'.outcome = "noop"
           /\ closer'["repeat"].pc = "idle"
           /\ UNCHANGED <<game, submissions, gameHistories, winningNumbers,
                          winnerHistories, rewardMessages>>]_vars

C8_Witness ==
    /\ event.op = "close" /\ event.p = "repeat" /\ event.outcome = "noop"
    /\ Committed(event.g)
    /\ ~game[event.g].is_active
    /\ ~game[event.g].winners_selected
    /\ Unreadable(game[event.g].winning_numbers_encrypted)

\* C9: when the sweep and the admin action close the same game concurrently,
\* the trigger that comes second ends without an error
C9_RacingCloseIsSafe ==
    (event.op = "close" /\ Committed(event.g)) => event.outcome # "integrity_error"

\* C10: a close call whose instance carries winning values that cannot be
\* decrypted and parsed ends at the decrypt block: it creates no GameHistory,
\* WinningNumber, WinnerHistory or RewardMessage row, and the only game field
\* it changes is is_active, which becomes false (winners_selected, salt,
\* hash_value and winning_numbers_encrypted keep their values)
C10_AbortOnDecryptFailure ==
    [][\A p \in Triggers :
          (/\ closer[p].pc = "guard"
           /\ closer'[p] # closer[p]
           /\ closer[p].copy.auto_close /\ closer[p].copy.is_active
           /\ Unreadable(closer[p].copy.winning_numbers_encrypted))
          => /\ closer'[p].pc = "idle"
             /\ event'.op = "close" /\ event'.outcome = "aborted"
             /\ game' = [game EXCEPT ![closer[p].g].is_active = FALSE]
             /\ UNCHANGED <<submissions, gameHistories, winningNumbers,
                            winnerHistories, rewardMessages>>]_vars

C10_Witness ==
    /\ event.op = "close" /\ event.outcome = "aborted"
    /\ Unreadable(game[event.g].winning_numbers_encrypted)
    /\ SubsOf(event.g) # <<>>
    /\ ~game[event.g].is_active

\* C11: every game the admin close action has called close on (and counts as
\* closed) is inactive afterwards, whatever its auto_close flag
C11_AdminCloseDeactivates ==
    (event.op = "close" /\ event.p = "admin") => ~game[event.g].is_active

\* ------------------------------------------------------------------------
\* Properties of the submission endpoint
\* ------------------------------------------------------------------------
\* C12: there is never more than one submission per (game, user), and a
\* submission request by a user who already has a submission for that game is
\* rejected with a validation error and changes no row and no game field
C12_SecondSubmissionRejected ==
    [][/\ \A i, j \in 1..Len(submissions') :
             (submissions'[i].game = submissions'[j].game
                /\ submissions'[i].user = submissions'[j].user) => i = j
       /\ (/\ event'.op = "submit"
           /\ \E j \in 1..Len(submissions) :
                 submissions[j].game = event'.g /\ submissions[j].user = event'.p)
          => /\ event'.outcome \in {"duplicate", "closed", "out_of_range"}
             /\ UNCHANGED <<game, submissions, gameHistories, winningNumbers,
                            winnerHistories, rewardMessages>>]_vars

C12_Witness ==
    /\ event.op = "submit" /\ event.outcome = "duplicate"
    /\ \E j \in 1..Len(submissions) :
          /\ submissions[j].game = event.g /\ submissions[j].user = event.p
          /\ submissions[j].is_winner
    /\ Len(submissions) = MaxSubs

\* C13: a request through the submission endpoint that stores a change to a
\* submission is made while the submission's game is active and before its
\* end_time, and leaves a guess within the game's range
C13_AcceptedOnlyWhileOpen ==
    [][(event'.op = "update" /\ submissions' # submissions) =>
          LET sub == submissions'[event'.i]
              gm == game[sub.game]
          IN  /\ gm.is_active
              /\ now < gm.end_time
              /\ sub.guessed_number >= gm.guess_min
              /\ sub.guessed_number <= gm.guess_max]_vars

\* C14: no step sets is_winner on a submission of a game that is active
C14_WinnerFlagOnlyAtClose ==
    [][\A i \in 1..Len(submissions) :
          (~submissions[i].is_winner /\ submissions'[i].is_winner)
             => ~game[submissions[i].game].is_active]_vars

\* ------------------------------------------------------------------------
\* Properties of the reward phase
\* ------------------------------------------------------------------------
\* C15: claim_reward fails with 'already claimed' on a claimed record, with
\* 'expired' when now is past claim_deadline, and succeeds otherwise (the
\* deadline instant included); a failed claim changes no field of the record
\* and posts no message
C15_ClaimRewardGuards ==
    [][event'.op = "claim" =>
          LET i == event'.i
              wh == winnerHistories[i]
          IN  /\ wh.is_claimed => event'.outcome = "already_claimed"
              /\ (~wh.is_claimed /\ now > wh.claim_deadline) => event'.outcome = "expired"
              /\ (~wh.is_claimed /\ now <= wh.claim_deadline) =>
                    /\ event'.outcome = "claimed"
                    /\ winnerHistories'[i].is_claimed
                    /\ winnerHistories'[i].claimed_at = now
                    /\ winnerHistories'[i].reward_delivery_deadline =
                          now + DeliveryDays * HoursPerDay
                    /\ [wh |-> i, sender |-> wh.user, kind |-> "claimed"] \in rewardMessages'
              /\ event'.outcome # "claimed" =>
                    UNCHANGED <<winnerHistories, rewardMessages>>]_vars

C15_Witness ==
    /\ event.op = "claim" /\ event.outcome = "claimed"
    /\ winnerHistories[event.i].claimed_at = winnerHistories[event.i].claim_deadline

\* C16: mark_delivered fails with 'not claimed', 'expired' or 'already
\* delivered' (tested in this order) and a failure changes nothing; at all
\* times reward_delivered implies is_claimed, and neither flag goes back to false
C16_MarkDeliveredGuards ==
    [][/\ event'.op = "deliver" =>
             LET i == event'.i
                 wh == winnerHistories[i]
                 late == now > wh.reward_delivery_deadline
             IN  /\ ~wh.is_claimed => event'.outcome = "not_claimed"
                 /\ (wh.is_claimed /\ late) => event'.outcome = "expired"
                 /\ (wh.is_claimed /\ ~late /\ wh.reward_delivered) =>
                       event'.outcome = "already_delivered"
                 /\ (wh.is_claimed /\ ~late /\ ~wh.reward_delivered) =>
                       /\ event'.outcome = "delivered"
                       /\ winnerHistories'[i].reward_delivered
                 /\ event'.outcome # "delivered" =>
                       UNCHANGED <<winnerHistories, rewardMessages>>
       /\ \A i \in 1..Len(winnerHistories') :
             winnerHistories'[i].reward_delivered => winnerHistories'[i].is_claimed
       /\ \A i \in 1..Len(winnerHistories) :
             /\ winnerHistories[i].is_claimed => winnerHistories'[i].is_claimed
             /\ winnerHistories[i].reward_delivered => winnerHistories'[i].reward_delivered
      ]_vars

C16_Witness ==
    /\ event.op = "deliver" /\ event.outcome = "expired"
    /\ winnerHistories[event.i].is_claimed
    /\ ~winnerHistories[event.i].reward_delivered

\* C17: a step during which an e-mail could not be sent ends as it does when
\* the e-mail is sent: close adds every WinnerHistory of the winner loop and
\* sets winners_selected, claim_reward leaves the record claimed with its
\* message posted, mark_delivered leaves it delivered
C17_MailFailureDoesNotAbort ==
    [][event'.mail_failed =>
          /\ event'.op = "close" =>
                LET p == event'.p
                    c == closer[p].copy
                    g == closer[p].g
                    subs == EligibleSubs(g, c.end_time)
                    r == SelectLoop(Backfill(closer[p].nums, c.number_of_winners, subs),
                                    1, c.number_of_winners, subs, g, <<>>)
                IN  /\ winnerHistories' = winnerHistories \o r.whs
                    /\ event'.outcome = IF r.raised THEN "field_error" ELSE "selected"
                    /\ ~r.raised => game'[g].winners_selected
          /\ event'.op = "claim" =>
                /\ event'.outcome = "claimed"
                /\ winnerHistories'[event'.i].is_claimed
                /\ \E m \in rewardMessages' : m.wh = event'.i /\ m.kind = "claimed"
          /\ event'.op = "deliver" =>
                /\ event'.outcome = "delivered"
                /\ winnerHistories'[event'.i].reward_delivered]_vars

C17_Witness ==
    /\ event.op = "close" /\ event.mail_failed /\ event.outcome = "selected"
    /\ game[event.g].winners_selected
    /\ WinnersOf(event.g) # {}

\* ------------------------------------------------------------------------
\* Properties of the draw
\* ------------------------------------------------------------------------
\* C18: a draw that succeeds yields exactly number_of_winners pairwise
\* distinct integers within [guess_min, guess_max] with a salt and a hash; the
\* draw fails, storing nothing, exactly when number_of_winners exceeds
\* guess_max - guess_min + 1
C18_DrawIsExactSample ==
    \A g \in GameIds :
       LET gm == game[g]
           size == gm.guess_max - gm.guess_min + 1
       IN  /\ gm.stage = "committed" =>
                /\ gm.number_of_winners <= size
                /\ Len(gm.drawn) = gm.number_of_winners
                /\ \A i \in 1..Len(gm.drawn) :
                      gm.drawn[i] >= gm.guess_min /\ gm.drawn[i] <= gm.guess_max
                /\ \A i, j \in 1..Len(gm.drawn) : gm.drawn[i] = gm.drawn[j] => i = j
                /\ gm.salt \in UuidSalts
                /\ gm.hash_value = CommitHash(gm.drawn, gm.salt)
           /\ gm.stage = "failed" =>
                /\ gm.number_of_winners > size
                /\ gm.drawn = <<>> /\ gm.hash_value = Null
                /\ gm.winning_numbers_encrypted = Null
           /\ gm.stage = "inserted" =>
                (gm.number_of_winners > size <=> ~ENABLED CreateGameCommit(g))

C18_Witness ==
    \E g \in GameIds :
       /\ game[g].stage = "committed"
       /\ game[g].number_of_winners = game[g].guess_max - game[g].guess_min + 1
       /\ game[g].number_of_winners >= 3

\* ------------------------------------------------------------------------
\* Properties of sharing
\* ------------------------------------------------------------------------
\* C19: whatever the interleaving of share requests, there is at most one
\* Share row per (reel, sharer)
C19_OneSharePerPair ==
    \A s, t \in shares : (s.reel = t.reel /\ s.sharer = t.sharer) => s.id = t.id

\* C20: a share request whose query finds the pair's row returns without
\* writing: every Share, reel and profile row is as before; and the
\* points_earned of a Share row is written only by the request that created it
C20_RepeatShareNotRescored ==
    [][/\ \A p \in Requests :
            (/\ requests[p].pc = "get"
             /\ requests'[p] # requests[p]
             /\ \E s \in shares : s.reel = requests[p].reel /\ s.sharer = requests[p].user)
            => /\ requests'[p].pc = "idle"
               /\ requests'[p].outcome \in {"already_shared", "multiple_objects"}
               /\ shares' = shares /\ reels' = reels /\ profiles' = profiles
       /\ \A s \in shares : \E t \in shares' :
            /\ t.id = s.id /\ t.reel = s.reel /\ t.sharer = s.sharer
            /\ t.points_earned # s.points_earned =>
                 \E p \in Requests : /\ requests[p].pc = "finish"
                                     /\ requests[p].row = s.id
                                     /\ requests[p].created
                                     /\ requests'[p].pc = "award"]_vars

C20_Witness ==
    \E p \in Requests :
       /\ requests[p].outcome = "already_shared"
       /\ \E s \in shares : s.points_earned > 0

\* the tiers whose threshold does not exceed points
TiersMet(points) == {t \in DOMAIN BadgeTiers : BadgeTiers[t] <= points}

\* the highest tier met, "" if none
TierOf(points) ==
    IF TiersMet(points) = {} THEN ""
    ELSE CHOOSE t \in TiersMet(points) :
            \A o \in TiersMet(points) : BadgeTiers[o] <= BadgeTiers[t]

\* the users who got a Share row in this step
Sharers == {s.sharer : s \in shares' \ shares}

\* C21: after a share that awards points the sharer's badge_type is the
\* highest tier whose threshold total_share_points has reached, none if it has
\* reached no threshold, and total_share_points is at most the cientium
\* threshold
C21_BadgeIsTierOfPoints ==
    [][\A u \in Sharers :
          /\ profiles'[u].badge_type = TierOf(profiles'[u].total_share_points)
          /\ profiles'[u].total_share_points <= BadgeTiers.cientium]_vars

C21_Witness ==
    \E s \in shares :
       /\ s.points_earned > 0
       /\ profiles[s.sharer].badge_type = "gold"
       /\ profiles[s.sharer].total_share_points < BadgeTiers.gold + s.points_earned

\* the order of the tiers: a badge ranks by its threshold, no badge lowest
TierRank(badge_type) == IF badge_type = "" THEN 0 ELSE BadgeTiers[badge_type]

\* C22: over the shares of a user total_share_points never decreases, the
\* badge never moves to a lower tier, and a total that has reached the cientium
\* threshold stays exactly there
C22_PointsAndTierMonotone ==
    [][\A u \in Users :
          /\ profiles'[u].total_share_points >= profiles[u].total_share_points
          /\ TierRank(profiles'[u].badge_type) >= TierRank(profiles[u].badge_type)
          /\ profiles[u].total_share_points >= BadgeTiers.cientium
                => profiles'[u].total_share_points = BadgeTiers.cientium]_vars

C22_Witness ==
    \E u \in Users :
       /\ profiles[u].total_share_points = BadgeTiers.cientium
       /\ profiles[u].badge_type = "cientium"
       /\ Cardinality({s \in shares : s.sharer = u /\ s.points_earned > 0}) >= 2

\* C23: concurrent share requests lose no update: the request that awards
\* points leaves the stored total at the capped sum of the stored total and
\* its points, and the request that counts a share leaves the reel's shares
\* counter one above the stored counter
C23_NoLostUpdate ==
    [][\A p \in Requests :
          /\ (requests[p].pc = "award" /\ requests'[p].pc = "idle")
                => profiles'[requests[p].user].total_share_points
                     = CapPoints(profiles[requests[p].user].total_share_points
                                   + requests[p].points)
          /\ (requests[p].pc = "finish" /\ requests'[p].pc = "award")
                => reels'[requests[p].reel].shares
                     = reels[requests[p].reel].shares + 1]_vars

\* C24: after every operation that changes a reel's reach the owner's
\* total_reach is the sum of the reach of the owner's reels
C24_TotalReachIsSum ==
    \A u \in Users : profiles[u].total_reach = SumReach(reels, u)

\* ------------------------------------------------------------------------
\* Properties of the reward deadlines
\* ------------------------------------------------------------------------
\* C25: a WinnerHistory created at close has claim_deadline = close time + 14
\* days and reward_delivery_deadline = claim_deadline + 7 days; once claimed
\* its reward_delivery_deadline is claimed_at + 7 days; so at all times
\* reward_delivery_deadline <= claim_deadline + 7 days, with equality while
\* the record is unclaimed
C25_RewardDeadlines ==
    [][/\ \A i \in (Len(winnerHistories) + 1)..Len(winnerHistories') :
            /\ winnerHistories'[i].claim_deadline = now + 14 * HoursPerDay
            /\ winnerHistories'[i].reward_delivery_deadline
                 = winnerHistories'[i].claim_deadline + 7 * HoursPerDay
       /\ \A i \in 1..Len(winnerHistories') :
            LET wh == winnerHistories'[i]
            IN  /\ wh.reward_delivery_deadline <= wh.claim_deadline + 7 * HoursPerDay
                /\ ~wh.is_claimed =>
                     wh.reward_delivery_deadline = wh.claim_deadline + 7 * HoursPerDay
                /\ wh.is_claimed =>
                     wh.reward_delivery_deadline = wh.claimed_at + 7 * HoursPerDay]_vars

C25_Witness ==
    \E i \in 1..Len(winnerHistories) :
       /\ winnerHistories[i].is_claimed
       /\ winnerHistories[i].reward_delivery_deadline
            < winnerHistories[i].claim_deadline + 7 * HoursPerDay

\* the floor of a tier as far as the number of users lets it show
TierFloor(badge_type) ==
    Min(CASE badge_type = "silver" -> 10000
          [] badge_type = "gold" -> 100000
          [] badge_type = "platinum" -> 1000000
          [] badge_type = "cientium" -> 10000000
          [] OTHER -> 0, totalUsers)

\* C26: a reach computed for a badge holder has the floor of the holder's
\* tier: a reel created by a profile of tier t, and a reel shared by a profile
\* that holds tier t after the share, gets a reach of at least the floor of t
\* (as far as the number of users allows)
C26_TierFloorApplied ==
    [][/\ \A i \in (Len(reels) + 1)..Len(reels') :
            reels'[i].reach >= TierFloor(profiles[reels'[i].user].badge_type)
       /\ \A s \in shares' \ shares :
            reels'[s.reel].reach >= TierFloor(profiles'[s.sharer].badge_type)]_vars

\* ------------------------------------------------------------------------
\* Properties of the feed
\* ------------------------------------------------------------------------
\* C27: a feed page holds no reel the viewer has hidden, no reel twice, at
\* most limit reels, in non-increasing order of this request's score; it
\* starts right after last_reel_id's position in the ranking when the ranking
\* holds that id, and from the top when it does not
C27_FeedPage ==
    event.op = "feed" =>
       LET page == event.results
           k == IF \E i \in 1..Len(event.ranked) : event.ranked[i] = event.last_reel_id
                THEN CHOOSE i \in 1..Len(event.ranked) : event.ranked[i] = event.last_reel_id
                ELSE 0
       IN  /\ \A i \in 1..Len(page) : page[i] \notin event.hidden_ids
           /\ \A i, j \in 1..Len(page) : page[i] = page[j] => i = j
           /\ Len(page) <= event.limit
           /\ \A i, j \in 1..Len(page) :
                 i < j => event.score[page[i]] >= event.score[page[j]]
           /\ \A i \in 1..Len(page) : page[i] = event.ranked[k + i]

\* ------------------------------------------------------------------------
\* Properties of game update and delete
\* ------------------------------------------------------------------------
\* C28: a game with a submission is not deactivated by an update or a delete
\* through the game API: its is_active goes from true to false only in the
\* close method
C28_ParticipantsBlockDeactivation ==
    [][\A g \in GameIds :
          (HasSubmissions(g) /\ game[g].is_active /\ ~game'[g].is_active)
            => \E p \in Triggers : /\ closer[p].pc = "guard" /\ closer[p].g = g
                                   /\ closer'[p].pc # "guard"]_vars

C28_Witness ==
    /\ event.op \in {"game_update", "game_delete"}
    /\ event.outcome \in {"restricted", "has_participants"}
    /\ HasSubmissions(event.g) /\ game[event.g].is_active

\* C29: the committed set of an open game matches the game's parameters after
\* any permitted update: exactly number_of_winners values, each within
\* [guess_min, guess_max]; and no operation after the commit changes salt,
\* hash_value or winning_numbers_encrypted
C29_CommitmentMatchesParameters ==
    [][\A g \in GameIds :
          /\ (game'[g].stage = "committed" /\ game'[g].is_active) =>
                /\ Len(game'[g].drawn) = game'[g].number_of_winners
                /\ \A i \in 1..Len(game'[g].drawn) :
                      /\ game'[g].drawn[i] >= game'[g].guess_min
                      /\ game'[g].drawn[i] <= game'[g].guess_max
          /\ game[g].stage = "committed" =>
                /\ game'[g].salt = game[g].salt
                /\ game'[g].hash_value = game[g].hash_value
                /\ game'[g].winning_numbers_encrypted = game[g].winning_numbers_encrypted]_vars

\* C30: a closed game has at most number_of_winners WinnerHistory records,
\* their prize positions are pairwise distinct and form 1..k, no user holds
\* more than one of them, and each record's number is the guess of that
\* user's submission to the game
C30_WinnerRecordsWellFormed ==
    \A g \in GameIds :
       (game[g].stage # "absent" /\ ~game[g].is_active) =>
          LET ws == WinnersOf(g) IN
          /\ Cardinality(ws) <= game[g].number_of_winners
          /\ {winnerHistories[i].prize_position : i \in ws} = 1..Cardinality(ws)
          /\ \A i, j \in ws :
                winnerHistories[i].user = winnerHistories[j].user => i = j
          /\ \A i \in ws : \E k \in 1..Len(submissions) :
                /\ submissions[k].game = g
                /\ submissions[k].user = winnerHistories[i].user
                /\ submissions[k].guessed_number = winnerHistories[i].number

\* ------------------------------------------------------------------------
\* Properties of the reach engine
\* ------------------------------------------------------------------------
\* C1: every reel's stored reach lies between 0 and the number of users
C1_ReachWithinUserCount ==
    \A r \in 1..Len(reels) : 0 <= reels[r].reach /\ reels[r].reach <= totalUsers

=============================================================================
